---- MODULE Spec2Model ----
(***************************************************************************)
(* A model of the rhythm-game engine of src/game.js (class GameEngine):    *)
(* the chart build (analyzeAudio / handleBeatDetection), the play-start    *)
(* flow (startGame), the frame tick (update), the tap judgment (checkHit,  *)
(* applyJudgment), pause/resume (togglePause) and the end of a session     *)
(* (endGame), together with the two clocks the engine reads:               *)
(* performance.now() and video.currentTime.                                *)
(*                                                                         *)
(* Times are integer milliseconds.  avgEnergy and a beat's intensity are   *)
(* exact fractions [n, d] in lowest terms.                                 *)
(***************************************************************************)
EXTENDS Integers, Sequences, FiniteSets, TLC

(***************************************************************************)
(* Bounds of the model.                                                    *)
(***************************************************************************)
\* performance.now() is not advanced past MaxTime
MaxTime == 1140
\* how many ticks the wall clock may run while no session is playing
MaxIdleTicks == 1
\* how many ticks the wall clock may run during one pause
MaxPauseTicks == 1
\* how many irregular events a run has: a tick during which the video
\* stalls (buffers), a tick after which no frame (update) runs before the
\* next one, a pause
MaxEvents == 1
\* how many presses of the controls of bindEvents a run has
MaxPresses == 5
\* the wall-clock time one tick adds while a session is followed closely
TickMs == 60
\* the wall-clock time one tick adds in the model of the whole engine
CoarseTickMs == 300
\* the sampling period of the chart build of the model, in ms
StepMs == 201
\* the length of the tracks that are played, in ms
\* (audioBuffer.duration * 1000)
TrackMs == 1000
\* the length of a longer track, of which only the chart is built
LongTrackMs == 1200
\* the length of a track too short for any note
ShortTrackMs == 500
\* the length of a track of a single sample
TinyTrackMs == 150
\* an interval setting longer than two sampling periods
LongIntervalMs == 450
\* the largest target index getRandomTarget draws in the model
MaxDrawn == 1
\* the number of judgments applied in SpecJudgment
MaxJudgments == 5
\* judgments applied in a run that follows the HP only
MaxLongJudgments == 12

Min(a, b) == IF a < b THEN a ELSE b
Max(a, b) == IF a > b THEN a ELSE b
Abs(x) == IF x < 0 THEN -x ELSE x

(***************************************************************************)
(* Program constants.                                                      *)
(***************************************************************************)
numTargets == 6
maxHP == 100
PerfectMs == 60
GreatMs == 120
HitWindowMs == 180
RetainMs == 1000
EndMarginMs == 500
EnergyFloor == 20
FallbackRankTarget == 500000

Targets == 0 .. (numTargets - 1)
\* the targets getRandomTarget draws, and the ones the player presses
\* (-1: getHitTargetIdx finds no target under the pointer)
DrawnTargets == 0 .. Min(MaxDrawn, numTargets - 1)
TapTargets == DrawnTargets \cup {numTargets - 1, -1}

\* the files the user can select: 1 is a track with beats, 2 a quiet track,
\* 3 a file whose audio cannot be decoded (decodeAudioData rejects)
Files == {1, 2, 3}
\* further files, of which only the chart is built: 4 is a longer track
\* with beats, 5 a loud track too short for any note, 6 and 7 are files
\* whose audio cannot be decoded, 8 is a loud track of a single sample, 9 a
\* track that begins with silence
BuildFiles == Files \cup {4, 5, 6, 7, 8, 9}
Decodable(f) == f \in {1, 2, 4, 5, 8, 9}

\* audioBuffer.duration * 1000 of each file
DurationMs(f) ==
  IF f = 4 THEN LongTrackMs
  ELSE IF f = 5 THEN ShortTrackMs
  ELSE IF f = 8 THEN TinyTrackMs
  ELSE TrackMs

\* (freqData[0] + ... + freqData[4]) / 5 at the samples of each file
Energy(f) ==
  IF f = 1 THEN <<20, 30, 81, 10, 10, 10>>
  ELSE IF f = 4 THEN <<100, 120, 1, 36, 13, 9, 5>>
  ELSE IF f = 5 THEN <<30, 60, 90, 120>>
  ELSE IF f = 8 THEN <<90, 120>>
  ELSE IF f = 9 THEN <<0, 50, 10, 10, 10, 10>>
  ELSE <<10, 10, 5, 20, 15, 10>>

\* the values the speed input (seconds, here already * 1000) and the
\* interval input (ms) can hold
Speeds == {60, 120}
Intervals == {100, 250}
BuildIntervals == Intervals \cup {LongIntervalMs}

VARIABLES
  gameState, isPlaying, isPaused,
  score, combo, maxCombo, stats, currentHP,
  notes, spawnedNoteCount, currentChart,
  analysisData, isAnalyzing, avgEnergy, lastAnalysisTime,
  currentFile, startTime, pauseStartTime, noteDuration, minBeatInterval,
  scoreTarget,
  speedInput, intervalInput,
  rank, perfNow, videoTime, videoPlaying, used, builds,
  judged, last, jlog

engineVars ==
  <<gameState, isPlaying, isPaused, score, combo, maxCombo, stats, currentHP,
    notes, spawnedNoteCount, currentChart, analysisData, isAnalyzing,
    avgEnergy, lastAnalysisTime, currentFile, startTime, pauseStartTime,
    noteDuration, minBeatInterval, scoreTarget>>
envVars ==
  <<speedInput, intervalInput, rank, perfNow, videoTime, videoPlaying, used,
    builds>>
ghostVars == <<judged, last, jlog>>
vars == <<engineVars, envVars, ghostVars>>

sessionVars == <<score, combo, maxCombo, stats, currentHP>>


(***************************************************************************)
(* Arithmetic helpers.                                                     *)
(***************************************************************************)

RECURSIVE GCD(_, _)
GCD(a, b) == IF b = 0 THEN a ELSE GCD(b, a % b)

\* the fraction n/d in lowest terms (d > 0, n >= 0)
Frac(n, d) == LET g == GCD(n, d) IN [n |-> n \div g, d |-> d \div g]
Zero == [n |-> 0, d |-> 1]

(***************************************************************************)
(* Values.                                                                 *)
(***************************************************************************)
\* this.analysisData = null
NoAnalysis ==
  [valid |-> FALSE, totalNotes |-> 0, perfectScore |-> 0, targetScore |-> 0,
   noteChart |-> <<>>, file |-> 0]

\* what handleBeatDetection returns when it returns null
NoBeat == [valid |-> FALSE, time |-> 0, intensity |-> Zero, isSimul |-> FALSE]

\* no chart build in flight
\* a chart build (one call of analyzeAudio past its guard) that has just
\* started: phase "decode" is the await of arrayBuffer/decodeAudioData,
\* phase "render" the offline rendering with k samples taken so far;
\* waiter says that a startGame call awaits this build
NewBuild(f, waiter) ==
  [phase |-> "decode", file |-> f, k |-> 0, noteChart |-> <<>>,
   minInterval |-> 0, noteDuration |-> 0, waiter |-> waiter]

\* what the run has used of the bounds; frameDue: a tick has passed since
\* the last frame
NoneUsed ==
  [events |-> 0, presses |-> 0, idle |-> 0, frameDue |-> FALSE]

NoStats == [perfect |-> 0, great |-> 0, good |-> 0, miss |-> 0]

\* the record of the most recent handler call
NoCall ==
  [op |-> "none", found |-> FALSE, id |-> 0, diff |-> 0, tier |-> "NONE",
   vtier |-> "NONE", entered |-> FALSE, awaited |-> FALSE, failed |-> FALSE,
   analyze |-> "none"]
Call(name) == [NoCall EXCEPT !.op = name]

\* the number of samples the build loop takes: t = 0; t < duration; t += step
NumSamples(f) == (DurationMs(f) + StepMs - 1) \div StepMs

(***************************************************************************)
(* handleBeatDetection(now, energy, totalDuration, minInterval,            *)
(* noteDuration), on this.avgEnergy = avg, this.lastAnalysisTime = lastT   *)
(* and this.isAnalyzing = analyzing.  totalMs is totalDuration * 1000.     *)
(* The result holds the new avgEnergy and lastAnalysisTime, the beat       *)
(* returned (NoBeat for null) and whether the legacy branch called         *)
(* spawnNote.                                                              *)
(***************************************************************************)
\* (a variant without the seed: the first sample is averaged with 0)
NextAvgEnergyNoSeed(avg, energy) ==
  Frac(19 * avg.n + energy * avg.d, 20 * avg.d)

NextAvgEnergy(avg, energy) ==
  IF avg.n = 0 THEN Frac(energy, 1)
  ELSE Frac(19 * avg.n + energy * avg.d, 20 * avg.d)

\* (Math.floor(now * 10) % 100) < simulChance, simulChance 40 when
\* intensity > 1.6 and 10 otherwise
IsSimul(now, intensity) ==
  LET simulChance == IF 5 * intensity.n > 8 * intensity.d THEN 40 ELSE 10
  IN  ((now * 10) % 100) < simulChance

\* (a variant without the margin of 500 ms)
CanSpawnNoMargin(now, totalMs, nd) == totalMs - now > nd

\* lines 375-376: remainingTime > noteDuration + 500
CanSpawn(now, totalMs, nd) ==
  LET remainingTime == totalMs - now
  IN  remainingTime > nd + EndMarginMs

HandleBeatDetection(avg, lastT, analyzing, now, energy, totalMs, minInterval, nd) ==
  LET a == NextAvgEnergy(avg, energy)
      \* energy > avgEnergy * 1.02 && energy > 20
      isBeat == (50 * energy * a.d > 51 * a.n) /\ energy > EnergyFloor
      isTime == now - lastT > minInterval
      canSpawn == CanSpawn(now, totalMs, nd)
      intensity == Frac(energy * a.d, a.n)
  IN  IF isBeat /\ isTime /\ canSpawn
      THEN [avgEnergy |-> a, lastAnalysisTime |-> now,
            beat |-> IF analyzing
                     THEN [valid |-> TRUE, time |-> now, intensity |-> intensity,
                           isSimul |-> IsSimul(now, intensity)]
                     ELSE NoBeat,
            legacy |-> ~analyzing]
      ELSE [avgEnergy |-> a, lastAnalysisTime |-> lastT, beat |-> NoBeat,
            legacy |-> FALSE]

(***************************************************************************)
(* analyzeAudio, lines 342-354: the totals of a finished chart.            *)
(***************************************************************************)
\* (a variant that counts a simultaneous pair as one note)
TotalNotesEntries(chart) == Len(chart)

RECURSIVE TotalNotes(_)
TotalNotes(chart) ==
  IF chart = <<>> THEN 0
  ELSE (IF Head(chart).isSimul THEN 2 ELSE 1) + TotalNotes(Tail(chart))

\* (a variant whose combo bonus starts from combo 0)
PerfectScoreFromZero(totalNotes) ==
  totalNotes * 1000 + 10 * ((totalNotes * (totalNotes - 1)) \div 2)

PerfectScore(totalNotes) ==
  totalNotes * 1000 + 10 * ((totalNotes * (totalNotes + 1)) \div 2)

MakeAnalysis(chart, f) ==
  LET t == TotalNotes(chart)
  IN  [valid |-> TRUE, totalNotes |-> t, perfectScore |-> PerfectScore(t),
       targetScore |-> PerfectScore(t), noteChart |-> chart, file |-> f]

(***************************************************************************)
(* applyJudgment(j) on the session record s.                               *)
(***************************************************************************)
Session ==
  [score |-> score, combo |-> combo, maxCombo |-> maxCombo, stats |-> stats,
   currentHP |-> currentHP]

FreshSession ==
  [score |-> 0, combo |-> 0, maxCombo |-> 0, stats |-> NoStats,
   currentHP |-> maxHP]

\* (a variant that caps the HP but has no floor)
ClampHPNoFloor(hp) == Min(maxHP, hp)

ClampHP(hp) == Min(maxHP, Max(0, hp))

\* (a variant whose combo bonus uses the combo before the increment)
ApplyJudgmentOldCombo(s, j) ==
  IF j = "MISS"
  THEN [s EXCEPT !.combo = 0,
                 !.stats.miss = @ + 1,
                 !.currentHP = ClampHP(@ - 10)]
  ELSE LET c == s.combo + 1
           base == IF j = "PERFECT" THEN 1000 ELSE IF j = "GREAT" THEN 750 ELSE 500
           hpChange == IF j = "PERFECT" THEN 1 ELSE IF j = "GREAT" THEN 0 ELSE -2
       IN  [s EXCEPT !.combo = c,
                     !.maxCombo = Max(c, @),
                     !.stats = IF j = "PERFECT" THEN [@ EXCEPT !.perfect = @ + 1]
                               ELSE IF j = "GREAT" THEN [@ EXCEPT !.great = @ + 1]
                               ELSE [@ EXCEPT !.good = @ + 1],
                     !.score = @ + base + s.combo * 10,
                     !.currentHP = ClampHP(@ + hpChange)]

ApplyJudgment(s, j) ==
  IF j = "MISS"
  THEN [s EXCEPT !.combo = 0,
                 !.stats.miss = @ + 1,
                 !.currentHP = ClampHP(@ - 10)]
  ELSE LET c == s.combo + 1
           base == IF j = "PERFECT" THEN 1000 ELSE IF j = "GREAT" THEN 750 ELSE 500
           hpChange == IF j = "PERFECT" THEN 1 ELSE IF j = "GREAT" THEN 0 ELSE -2
       IN  [s EXCEPT !.combo = c,
                     !.maxCombo = Max(c, @),
                     !.stats = IF j = "PERFECT" THEN [@ EXCEPT !.perfect = @ + 1]
                               ELSE IF j = "GREAT" THEN [@ EXCEPT !.great = @ + 1]
                               ELSE [@ EXCEPT !.good = @ + 1],
                     !.score = @ + base + c * 10,
                     !.currentHP = ClampHP(@ + hpChange)]

(***************************************************************************)
(* checkHit, lines 537-555: the note a tap selects and its tier.           *)
(***************************************************************************)
ArrTime(note) == note.spawnTime + note.duration

\* (a variant that also considers the notes already judged)
CandidateAnyNote(note, targetIdx) == note.targetIdx = targetIdx

\* whether the loop of checkHit considers the note at all
Candidate(note, targetIdx) == note.targetIdx = targetIdx /\ ~note.processed

\* (a variant in which a tie on diff goes to the later note of the list)
CloserOrEqual(diff, found, minDiff) ==
  diff < HitWindowMs /\ (found = 0 \/ diff <= minDiff)

\* line 544: whether the note at distance diff replaces the one found so far
Closer(diff, found, minDiff) ==
  diff < HitWindowMs /\ (found = 0 \/ diff < minDiff)

\* the loop over this.notes from index i on; found = 0 stands for
\* found = null with minDiff = Infinity
RECURSIVE FindFrom(_, _, _, _, _, _)
FindFrom(ns, i, targetIdx, now, found, minDiff) ==
  IF i > Len(ns) THEN [found |-> found, minDiff |-> minDiff]
  ELSE LET diff == Abs(now - ArrTime(ns[i]))
       IN  IF Candidate(ns[i], targetIdx) /\ Closer(diff, found, minDiff)
           THEN FindFrom(ns, i + 1, targetIdx, now, i, diff)
           ELSE FindFrom(ns, i + 1, targetIdx, now, found, minDiff)

FindNote(ns, targetIdx, now) == FindFrom(ns, 1, targetIdx, now, 0, 0)

\* (a variant whose upper bounds belong to the better tier)
TierInclusive(minDiff) ==
  IF minDiff <= PerfectMs THEN "PERFECT"
  ELSE IF minDiff <= GreatMs THEN "GREAT"
  ELSE "GOOD"

Tier(minDiff) ==
  IF minDiff < PerfectMs THEN "PERFECT"
  ELSE IF minDiff < GreatMs THEN "GREAT"
  ELSE "GOOD"

\* the tier checkHit gives a tap at time now, "NONE" when nothing is found
TapTier(ns, targetIdx, now) ==
  LET f == FindNote(ns, targetIdx, now)
  IN  IF f.found = 0 THEN "NONE" ELSE Tier(f.minDiff)


(***************************************************************************)
(* spawnNote and addNote.  tg is the pair of targets getRandomTarget       *)
(* draws: tg[1] for a single note, tg[1] and tg[2] # tg[1] for a pair.     *)
(* st holds notes, spawnedNoteCount and the judgment count of every note   *)
(* spawned in the session (judged, indexed by note id).                    *)
(***************************************************************************)
TargetPairs == {tg \in DrawnTargets \X DrawnTargets : tg[1] # tg[2]}

AddNote(st, targetIdx, spawnTime, duration, isSimultaneous) ==
  [st EXCEPT
     !.notes = Append(@, [id |-> Len(st.judged) + 1, targetIdx |-> targetIdx,
                          spawnTime |-> spawnTime, duration |-> duration,
                          isSimultaneous |-> isSimultaneous,
                          processed |-> FALSE]),
     !.judged = Append(@, 0)]

SpawnNote(st, paused, now, nd, isSimul, tg) ==
  IF paused THEN st
  ELSE IF isSimul
  THEN [AddNote(AddNote(st, tg[1], now, nd, TRUE), tg[2], now, nd, TRUE)
          EXCEPT !.count = @ + 2]
  ELSE [AddNote(st, tg[1], now, nd, FALSE) EXCEPT !.count = @ + 1]

(***************************************************************************)
(* update, lines 638-656.                                                  *)
(***************************************************************************)
\* how many entries the while loop shifts off the chart at time now
\* (a variant that shifts at most one entry per frame)
DueCountOne(chart, now) ==
  IF chart # <<>> /\ now >= Head(chart).time THEN 1 ELSE 0

RECURSIVE DueCount(_, _)
DueCount(chart, now) ==
  IF chart # <<>> /\ now >= Head(chart).time
  THEN 1 + DueCount(Tail(chart), now)
  ELSE 0

\* the while loop: the first n entries of chart are spawned in order
RECURSIVE SpawnDue(_, _, _, _, _, _, _)
SpawnDue(st, chart, n, i, now, nd, tgs) ==
  IF i > n THEN st
  ELSE SpawnDue(SpawnNote(st, FALSE, now, nd, chart[i].isSimul, tgs[i]),
                chart, n, i + 1, now, nd, tgs)

\* (a variant that times a note out at the edge of the hit window)
TimedOutAtEdge(note, now) ==
  ~note.processed /\ now >= ArrTime(note) + HitWindowMs

\* whether the sweep of update times the note out at time now
TimedOut(note, now) == ~note.processed /\ now > ArrTime(note) + HitWindowMs

\* this.notes.forEach of update from index i on; sw holds notes, the
\* session record and judged
RECURSIVE Sweep(_, _, _)
Sweep(sw, i, now) ==
  IF i > Len(sw.notes) THEN sw
  ELSE IF TimedOut(sw.notes[i], now)
  THEN Sweep([notes |-> [sw.notes EXCEPT ![i].processed = TRUE],
              sess |-> ApplyJudgment(sw.sess, "MISS"),
              judged |-> [sw.judged EXCEPT ![sw.notes[i].id] = @ + 1]],
             i + 1, now)
  ELSE Sweep(sw, i + 1, now)

Retained(note, now) == ~note.processed \/ (now - ArrTime(note) < RetainMs)
Retain(ns, now) == SelectSeq(ns, LAMBDA n : Retained(n, now))

(***************************************************************************)
(* endGame, lines 677-685: the rank.                                       *)
(***************************************************************************)
\* (a variant that always takes the fallback constant)
RankTargetFallback(ad) == FallbackRankTarget

RankTarget(ad) ==
  IF ad.valid /\ ad.perfectScore # 0 THEN ad.perfectScore ELSE FallbackRankTarget

Rank(sc, ad) ==
  LET target == RankTarget(ad)
  IN  IF 100 * sc >= 90 * target THEN "SS"
      ELSE IF 100 * sc >= 80 * target THEN "S"
      ELSE IF 100 * sc >= 70 * target THEN "A"
      ELSE IF 100 * sc >= 60 * target THEN "B"
      ELSE "C"

(***************************************************************************)
(* startGame, lines 243-255: the score target.                             *)
(***************************************************************************)
\* video.duration in ms, or one of the two values that stand for NaN and
\* Infinity: the video of file 3 has no metadata (NaN), that of file 6 has
\* length 0, that of file 7 is a stream (Infinity)
NaNDuration == -1
InfiniteDuration == -2
VideoDurationMs(f) ==
  IF Decodable(f) THEN DurationMs(f)
  ELSE IF f = 6 THEN 0
  ELSE IF f = 7 THEN InfiniteDuration
  ELSE NaNDuration

ScoreTarget(ad, f, interval) ==
  IF ad.valid THEN ad.targetScore
  ELSE LET durationMs == IF VideoDurationMs(f) \in {NaNDuration, InfiniteDuration}
                         THEN 180000
                         ELSE VideoDurationMs(f)
           estimatedNotes == (durationMs * 6) \div (interval * 10)
           maxScore == PerfectScore(estimatedNotes)
       IN  (maxScore * 9) \div 10


(***************************************************************************)
(* The state after construction (constructor, lines 7-55).                 *)
(***************************************************************************)
Init ==
  /\ gameState = "menu" /\ isPlaying = FALSE /\ isPaused = FALSE
  /\ score = 0 /\ combo = 0 /\ maxCombo = 0 /\ stats = NoStats
  /\ currentHP = maxHP
  /\ notes = <<>> /\ spawnedNoteCount = 0 /\ currentChart = <<>>
  /\ analysisData = NoAnalysis /\ isAnalyzing = FALSE
  /\ avgEnergy = Zero /\ lastAnalysisTime = 0
  /\ currentFile = 0 /\ startTime = 0 /\ pauseStartTime = 0
  /\ noteDuration = 0 /\ minBeatInterval = 250 /\ scoreTarget = 0
  /\ speedInput \in Speeds /\ intervalInput \in Intervals
  /\ rank = "" /\ perfNow = 0 /\ videoTime = 0 /\ videoPlaying = FALSE
  /\ used = NoneUsed /\ builds = <<>>
  /\ judged = <<>> /\ last = NoCall /\ jlog = <<>>

(***************************************************************************)
(* analyzeAudio(file), lines 285-288: the part that runs before its first  *)
(* await.  A call while isAnalyzing returns at once.                       *)
(***************************************************************************)
\* (a variant without the guard of line 286)
AnalyzeAudioUnguarded(file, waiter) ==
  /\ isAnalyzing' = TRUE
  /\ analysisData' = NoAnalysis
  /\ builds' = Append(builds, NewBuild(file, waiter))

AnalyzeAudio(file, waiter) ==
  IF isAnalyzing
  THEN UNCHANGED <<isAnalyzing, analysisData, builds>>
  ELSE /\ isAnalyzing' = TRUE
       /\ analysisData' = NoAnalysis
       /\ builds' = Append(builds, NewBuild(file, waiter))

\* what a handler that calls analyzeAudio records of the call
AnalyzeOutcome == IF isAnalyzing THEN "noop" ELSE "started"

(***************************************************************************)
(* startGame, lines 229-283: everything after the wait for the analysis,   *)
(* with this.analysisData = ad.                                            *)
(***************************************************************************)
bodyVars ==
  <<noteDuration, minBeatInterval, score, combo, maxCombo, notes,
    spawnedNoteCount, stats, currentHP, scoreTarget, isPaused, avgEnergy,
    lastAnalysisTime, currentChart, gameState, isPlaying, videoTime,
    videoPlaying, startTime, judged>>

\* (a variant whose playback starts past the first entry of the chart)
PlaybackChartRest(ad) ==
  IF ad.valid /\ ad.noteChart # <<>> THEN Tail(ad.noteChart) ELSE <<>>

\* lines 264-270: the chart of a session is a copy of the analysed chart
PlaybackChart(ad) == IF ad.valid THEN ad.noteChart ELSE <<>>

StartGameBody(ad) ==
  /\ noteDuration' = speedInput
  /\ minBeatInterval' = intervalInput
  /\ score' = 0 /\ combo' = 0 /\ maxCombo' = 0
  /\ notes' = <<>> /\ judged' = <<>>
  /\ spawnedNoteCount' = 0
  /\ stats' = NoStats
  /\ currentHP' = maxHP
  /\ scoreTarget' = ScoreTarget(ad, currentFile, intervalInput)
  /\ isPaused' = FALSE
  /\ avgEnergy' = Zero
  /\ lastAnalysisTime' = 0
  /\ currentChart' = PlaybackChart(ad)
  /\ gameState' = "playing" /\ isPlaying' = TRUE
  /\ videoTime' = 0 /\ videoPlaying' = TRUE
  /\ startTime' = perfNow

(***************************************************************************)
(* startGame(), lines 215-227, called where isPaused = p, startTime = st   *)
(* and the video plays iff vp (togglePause may have run just before).      *)
(***************************************************************************)
StartGame(p, st, vp) ==
  IF currentFile = 0
  THEN /\ isPaused' = p /\ startTime' = st /\ videoPlaying' = vp
       /\ UNCHANGED <<noteDuration, minBeatInterval, score, combo, maxCombo,
                      notes, spawnedNoteCount, stats, currentHP, scoreTarget,
                      avgEnergy, lastAnalysisTime, currentChart, gameState,
                      isPlaying, videoTime, judged>>
       /\ UNCHANGED <<isAnalyzing, analysisData, builds>>
       /\ last' = Call("startGame")
  ELSE IF ~analysisData.valid /\ ~isAnalyzing
  THEN /\ AnalyzeAudio(currentFile, TRUE)
       /\ isPaused' = p /\ startTime' = st /\ videoPlaying' = vp
       /\ UNCHANGED <<noteDuration, minBeatInterval, score, combo, maxCombo,
                      notes, spawnedNoteCount, stats, currentHP, scoreTarget,
                      avgEnergy, lastAnalysisTime, currentChart, gameState,
                      isPlaying, videoTime, judged>>
       /\ last' = [Call("startGame") EXCEPT !.awaited = TRUE,
                                            !.analyze = "started"]
  ELSE /\ StartGameBody(analysisData)
       /\ UNCHANGED <<isAnalyzing, analysisData, builds>>
       /\ last' = [Call("startGame") EXCEPT !.entered = TRUE]

(***************************************************************************)
(* The controls of bindEvents, lines 140-189.  A control is pressed only   *)
(* while the screen it belongs to is the active one.                       *)
(***************************************************************************)
StartBtn ==
  /\ used.presses < MaxPresses
  /\ used' = [used EXCEPT !.presses = @ + 1]
  /\ gameState = "menu"
  /\ gameState' = "song-select" /\ isPlaying' = FALSE
  /\ last' = Call("nav")
  /\ UNCHANGED <<isPaused, sessionVars, notes, spawnedNoteCount, currentChart,
                 analysisData, isAnalyzing, avgEnergy, lastAnalysisTime,
                 currentFile, startTime, pauseStartTime, noteDuration,
                 minBeatInterval, scoreTarget, speedInput, intervalInput, rank,
                 perfNow, videoTime, videoPlaying, builds, judged, jlog>>

BackToMenu ==
  /\ used.presses < MaxPresses
  /\ used' = [used EXCEPT !.presses = @ + 1]
  /\ gameState = "song-select"
  /\ videoPlaying' = FALSE /\ videoTime' = 0
  /\ gameState' = "menu" /\ isPlaying' = FALSE
  /\ last' = Call("nav")
  /\ UNCHANGED <<isPaused, sessionVars, notes, spawnedNoteCount, currentChart,
                 analysisData, isAnalyzing, avgEnergy, lastAnalysisTime,
                 currentFile, startTime, pauseStartTime, noteDuration,
                 minBeatInterval, scoreTarget, speedInput, intervalInput, rank,
                 perfNow, builds, judged, jlog>>

QuitBtn ==
  /\ used.presses < MaxPresses
  /\ used' = [used EXCEPT !.presses = @ + 1]
  /\ gameState = "result"
  /\ gameState' = "menu" /\ isPlaying' = FALSE
  /\ last' = Call("nav")
  /\ UNCHANGED <<isPaused, sessionVars, notes, spawnedNoteCount, currentChart,
                 analysisData, isAnalyzing, avgEnergy, lastAnalysisTime,
                 currentFile, startTime, pauseStartTime, noteDuration,
                 minBeatInterval, scoreTarget, speedInput, intervalInput, rank,
                 perfNow, videoTime, videoPlaying, builds, judged, jlog>>

\* upload.onchange, lines 180-189
Upload(f) ==
  /\ used.presses < MaxPresses
  /\ used' = [used EXCEPT !.presses = @ + 1]
  /\ gameState = "song-select"
  /\ currentFile' = f
  /\ videoTime' = 0 /\ videoPlaying' = FALSE
  /\ AnalyzeAudio(f, FALSE)
  /\ last' = [Call("onchange") EXCEPT !.analyze = AnalyzeOutcome]
  /\ UNCHANGED <<gameState, isPlaying, isPaused, sessionVars, notes,
                 spawnedNoteCount, currentChart, avgEnergy, lastAnalysisTime,
                 startTime, pauseStartTime, noteDuration, minBeatInterval,
                 scoreTarget, speedInput, intervalInput, rank, perfNow, judged, jlog>>

\* speed-input.onchange, lines 141-143
SpeedChange(v) ==
  /\ used.presses < MaxPresses
  /\ used' = [used EXCEPT !.presses = @ + 1]
  /\ gameState = "song-select"
  /\ v # speedInput
  /\ speedInput' = v
  /\ IF currentFile # 0
     THEN /\ AnalyzeAudio(currentFile, FALSE)
          /\ last' = [Call("onchange") EXCEPT !.analyze = AnalyzeOutcome]
     ELSE /\ UNCHANGED <<isAnalyzing, analysisData, builds>>
          /\ last' = Call("onchange")
  /\ UNCHANGED <<gameState, isPlaying, isPaused, sessionVars, notes,
                 spawnedNoteCount, currentChart, avgEnergy, lastAnalysisTime,
                 currentFile, startTime, pauseStartTime, noteDuration,
                 minBeatInterval, scoreTarget, intervalInput, rank, perfNow,
                 videoTime, videoPlaying, judged, jlog>>

\* interval-input.onchange, lines 144-146
IntervalChange(v) ==
  /\ used.presses < MaxPresses
  /\ used' = [used EXCEPT !.presses = @ + 1]
  /\ gameState = "song-select"
  /\ v # intervalInput
  /\ intervalInput' = v
  /\ IF currentFile # 0
     THEN /\ AnalyzeAudio(currentFile, FALSE)
          /\ last' = [Call("onchange") EXCEPT !.analyze = AnalyzeOutcome]
     ELSE /\ UNCHANGED <<isAnalyzing, analysisData, builds>>
          /\ last' = Call("onchange")
  /\ UNCHANGED <<gameState, isPlaying, isPaused, sessionVars, notes,
                 spawnedNoteCount, currentChart, avgEnergy, lastAnalysisTime,
                 currentFile, startTime, pauseStartTime, noteDuration,
                 minBeatInterval, scoreTarget, speedInput, rank, perfNow,
                 videoTime, videoPlaying, judged, jlog>>

\* startGame() from the song selection screen
SongStart ==
  /\ gameState = "song-select"
  /\ used.presses < MaxPresses
  /\ used' = [used EXCEPT !.presses = @ + 1]
  /\ StartGame(isPaused, startTime, videoPlaying)
  /\ UNCHANGED <<currentFile, pauseStartTime, speedInput, intervalInput, rank,
                 perfNow, jlog>>

\* restart-btn.onclick, lines 171-173
RestartBtn ==
  /\ gameState = "result"
  /\ used.presses < MaxPresses
  /\ used' = [used EXCEPT !.presses = @ + 1]
  /\ StartGame(isPaused, startTime, videoPlaying)
  /\ UNCHANGED <<currentFile, pauseStartTime, speedInput, intervalInput, rank,
                 perfNow, jlog>>


(***************************************************************************)
(* togglePause, lines 397-417.                                             *)
(***************************************************************************)
\* (a variant that leaves startTime alone)
ResumedStartTimeKept(st, now, pst) == st

\* lines 414-415: startTime after a resume at wall-clock time now
ResumedStartTime(st, now, pst) == st + (now - pst)

TogglePause ==
  IF ~isPlaying
  THEN UNCHANGED <<isPaused, videoPlaying, pauseStartTime, startTime>>
  ELSE /\ isPaused' = ~isPaused
       /\ IF ~isPaused
          THEN /\ videoPlaying' = FALSE
               /\ pauseStartTime' = perfNow
               /\ UNCHANGED startTime
          ELSE /\ videoPlaying' = TRUE
               /\ startTime' = ResumedStartTime(startTime, perfNow, pauseStartTime)
               /\ UNCHANGED pauseStartTime

\* pause-btn.onclick and resume-btn.onclick, lines 158-159
PauseBtn ==
  /\ gameState = "playing"
  /\ used.presses < MaxPresses
  /\ isPaused \/ used.events < MaxEvents
  /\ used' = [used EXCEPT !.presses = @ + 1,
                          !.events = IF isPaused THEN @ ELSE @ + 1]
  /\ TogglePause
  /\ last' = Call("togglePause")
  /\ UNCHANGED <<gameState, isPlaying, sessionVars, notes, spawnedNoteCount,
                 currentChart, analysisData, isAnalyzing, avgEnergy,
                 lastAnalysisTime, currentFile, noteDuration, minBeatInterval,
                 scoreTarget, speedInput, intervalInput, rank, perfNow,
                 videoTime, builds, judged, jlog>>

\* pause-retry-btn.onclick, lines 160-163: togglePause(); startGame()
PauseRetry ==
  /\ gameState = "playing" /\ isPlaying /\ isPaused
  /\ used.presses < MaxPresses
  /\ used' = [used EXCEPT !.presses = @ + 1]
  /\ StartGame(FALSE,
               ResumedStartTime(startTime, perfNow, pauseStartTime), TRUE)
  /\ UNCHANGED <<currentFile, pauseStartTime, speedInput, intervalInput, rank,
                 perfNow, jlog>>

\* pause-menu-btn.onclick, lines 164-168: togglePause(); endGame();
\* switchScreen('menu')
PauseMenu ==
  /\ used.presses < MaxPresses
  /\ used' = [used EXCEPT !.presses = @ + 1]
  /\ gameState = "playing" /\ isPlaying /\ isPaused
  /\ isPaused' = FALSE
  /\ startTime' = ResumedStartTime(startTime, perfNow, pauseStartTime)
  /\ videoPlaying' = FALSE
  /\ rank' = Rank(score, analysisData)
  /\ gameState' = "menu" /\ isPlaying' = FALSE
  /\ last' = Call("nav")
  /\ UNCHANGED <<sessionVars, notes, spawnedNoteCount, currentChart,
                 analysisData, isAnalyzing, avgEnergy, lastAnalysisTime,
                 currentFile, pauseStartTime, noteDuration, minBeatInterval,
                 scoreTarget, speedInput, intervalInput, perfNow, videoTime,
                 builds, judged, jlog>>

(***************************************************************************)
(* checkHit(targetIdx), lines 533-560, reached from handleMouseDown and    *)
(* handleTouchStart with idx = getHitTargetIdx(...) when idx is not -1.    *)
(***************************************************************************)
\* the clock checkHit reads, line 535
GameClock == perfNow - startTime
\* the clock spawnNote and update read, lines 421 and 636
VideoClock == videoTime

\* (a variant in which a tap that finds no note counts as a MISS)
NoNoteFoundIsMiss ==
  LET s == ApplyJudgment(Session, "MISS") IN
  /\ score' = s.score /\ combo' = s.combo /\ maxCombo' = s.maxCombo
  /\ stats' = s.stats /\ currentHP' = s.currentHP
  /\ UNCHANGED <<notes, judged>>
  /\ last' = Call("checkHit")

\* lines 534 and 550: checkHit returns, or finds no note and does nothing
NoNoteFound ==
  /\ UNCHANGED <<sessionVars, notes, judged>>
  /\ last' = Call("checkHit")

CheckHit(targetIdx) ==
  IF ~isPlaying
  THEN NoNoteFound
  ELSE LET now == GameClock
           f == FindNote(notes, targetIdx, now)
       IN  IF f.found = 0
           THEN NoNoteFound
           ELSE LET j == Tier(f.minDiff)
                    s == ApplyJudgment(Session, j)
                IN  /\ notes' = [notes EXCEPT ![f.found].processed = TRUE]
                    /\ judged' = [judged EXCEPT ![notes[f.found].id] = @ + 1]
                    /\ score' = s.score /\ combo' = s.combo
                    /\ maxCombo' = s.maxCombo /\ stats' = s.stats
                    /\ currentHP' = s.currentHP
                    /\ last' = [Call("checkHit") EXCEPT
                                  !.found = TRUE, !.id = notes[f.found].id,
                                  !.diff = f.minDiff, !.tier = j,
                                  !.vtier = TapTier(notes, targetIdx, VideoClock)]

\* handleMouseDown, lines 507-513; idx = -1 is a press on no target
HandleMouseDown(idx) ==
  /\ IF idx # -1
     THEN CheckHit(idx)
     ELSE /\ UNCHANGED <<sessionVars, notes, judged>>
          /\ last' = Call("mousedown")
  /\ UNCHANGED <<gameState, isPlaying, isPaused, spawnedNoteCount, currentChart,
                 analysisData, isAnalyzing, avgEnergy, lastAnalysisTime,
                 currentFile, startTime, pauseStartTime, noteDuration,
                 minBeatInterval, scoreTarget, envVars, jlog>>

(***************************************************************************)
(* update(t), lines 634-659, called by renderLoop on every frame.          *)
(***************************************************************************)
VideoEnded == Decodable(currentFile) /\ videoTime >= DurationMs(currentFile)

Update ==
  /\ last' = Call("update")
  /\ used' = [used EXCEPT !.frameDue = FALSE]
  /\ IF ~isPlaying \/ isPaused
     THEN UNCHANGED <<gameState, isPlaying, sessionVars, notes,
                      spawnedNoteCount, currentChart, rank, videoPlaying, judged>>
     ELSE LET now == VideoClock
              n == DueCount(currentChart, now)
          IN  \E tgs \in [1 .. n -> TargetPairs] :
                LET sp == SpawnDue([notes |-> notes, count |-> spawnedNoteCount,
                                    judged |-> judged],
                                   currentChart, n, 1, now, noteDuration, tgs)
                    sw == Sweep([notes |-> sp.notes, sess |-> Session,
                                 judged |-> sp.judged], 1, now)
                IN  /\ currentChart' = SubSeq(currentChart, n + 1, Len(currentChart))
                    /\ spawnedNoteCount' = sp.count
                    /\ notes' = Retain(sw.notes, now)
                    /\ judged' = sw.judged
                    /\ score' = sw.sess.score /\ combo' = sw.sess.combo
                    /\ maxCombo' = sw.sess.maxCombo /\ stats' = sw.sess.stats
                    /\ currentHP' = sw.sess.currentHP
                    /\ IF VideoEnded
                       THEN \* endGame, lines 661-700
                            /\ isPlaying' = FALSE /\ gameState' = "result"
                            /\ videoPlaying' = FALSE
                            /\ rank' = Rank(sw.sess.score, analysisData)
                       ELSE UNCHANGED <<gameState, isPlaying, rank, videoPlaying>>
  /\ UNCHANGED <<isPaused, analysisData, isAnalyzing, avgEnergy,
                 lastAnalysisTime, currentFile, startTime, pauseStartTime,
                 noteDuration, minBeatInterval, scoreTarget, speedInput,
                 intervalInput, perfNow, videoTime, builds, jlog>>

(***************************************************************************)
(* Time passes: performance.now() advances by dt; video.currentTime        *)
(* advances with it while the video plays, or stands still while the       *)
(* video element buffers.  renderLoop runs a frame between two ticks,      *)
(* unless the frame is delayed.                                            *)
(***************************************************************************)
VideoRuns ==
  videoPlaying /\ Decodable(currentFile) /\ videoTime < DurationMs(currentFile)

Tick(dt) ==
  LET running == isPlaying /\ ~isPaused IN
  /\ perfNow < MaxTime
  /\ ~isPlaying => used.idle < MaxIdleTicks
  /\ (isPlaying /\ isPaused) => perfNow - pauseStartTime < MaxPauseTicks * dt
  /\ perfNow' = perfNow + dt
  /\ \E stalled \in BOOLEAN :
       LET skipped == running /\ used.frameDue
           events == used.events + (IF stalled THEN 1 ELSE 0)
                                 + (IF skipped THEN 1 ELSE 0)
       IN  /\ stalled => VideoRuns
           /\ (stalled \/ skipped) => events <= MaxEvents
           /\ videoTime' = IF VideoRuns /\ ~stalled
                           THEN Min(videoTime + dt, DurationMs(currentFile))
                           ELSE videoTime
           /\ used' = [used EXCEPT
                         !.events = events,
                         !.idle = IF ~isPlaying THEN @ + 1 ELSE @,
                         !.frameDue = running]
  /\ UNCHANGED <<engineVars, speedInput, intervalInput, rank, videoPlaying,
                 builds, ghostVars>>

(***************************************************************************)
(* The chart build: analyzeAudio past its guard, lines 294-365.  The       *)
(* build is asynchronous; the engine's other handlers run between its      *)
(* steps.                                                                  *)
(***************************************************************************)
RemoveAt(seq, i) == SubSeq(seq, 1, i - 1) \o SubSeq(seq, i + 1, Len(seq))

\* the startGame call that awaited the build goes on when analyzeAudio
\* returns (nothing runs in between: the continuation is a microtask)
Continue(b, ad, failed) ==
  IF b.waiter
  THEN /\ StartGameBody(ad)
       /\ last' = [Call("startGame") EXCEPT !.entered = TRUE, !.awaited = TRUE,
                                            !.failed = failed]
  ELSE /\ UNCHANGED <<noteDuration, minBeatInterval, score, combo, maxCombo,
                      notes, spawnedNoteCount, stats, currentHP, scoreTarget,
                      isPaused, currentChart, gameState, isPlaying, videoTime,
                      videoPlaying, startTime, judged>>
       /\ last' = Call("analysis")

\* lines 295-322: the audio is decoded, then the settings are read and the
\* detection state is reset
BuildDecoded(i) ==
  LET b == builds[i] IN
  /\ b.phase = "decode"
  /\ Decodable(b.file)
  /\ builds' = [builds EXCEPT ![i] = [b EXCEPT !.phase = "render",
                                               !.minInterval = intervalInput,
                                               !.noteDuration = speedInput]]
  /\ avgEnergy' = Zero
  /\ lastAnalysisTime' = -intervalInput
  /\ last' = Call("analysis")
  /\ UNCHANGED <<gameState, isPlaying, isPaused, sessionVars, notes,
                 spawnedNoteCount, currentChart, analysisData, isAnalyzing,
                 currentFile, startTime, pauseStartTime, noteDuration,
                 minBeatInterval, scoreTarget, speedInput, intervalInput, rank,
                 perfNow, videoTime, videoPlaying, used, judged, jlog>>

\* lines 359-365: decoding throws; catch, then finally
BuildFailed(i) ==
  LET b == builds[i] IN
  /\ b.phase = "decode"
  /\ ~Decodable(b.file)
  /\ builds' = RemoveAt(builds, i)
  /\ isAnalyzing' = FALSE
  /\ Continue(b, analysisData, TRUE)
  /\ IF b.waiter THEN TRUE ELSE UNCHANGED <<avgEnergy, lastAnalysisTime>>
  /\ UNCHANGED <<analysisData, currentFile, pauseStartTime, speedInput,
                 intervalInput, rank, perfNow, used, jlog>>

\* lines 329-337: the callback of offlineCtx.suspend(t) for sample k
BuildSample(i) ==
  LET b == builds[i]
      now == b.k * StepMs
      r == HandleBeatDetection(avgEnergy, lastAnalysisTime, isAnalyzing, now,
                               Energy(b.file)[b.k + 1], DurationMs(b.file),
                               b.minInterval,
                               b.noteDuration)
  IN
  /\ b.phase = "render"
  /\ b.k < NumSamples(b.file)
  /\ avgEnergy' = r.avgEnergy
  /\ lastAnalysisTime' = r.lastAnalysisTime
  /\ builds' = [builds EXCEPT ![i] =
                  [b EXCEPT !.k = @ + 1,
                            !.noteChart = IF r.beat.valid THEN Append(@, r.beat)
                                          ELSE @]]
  /\ IF r.legacy
     THEN \E tg \in TargetPairs :
            LET sp == SpawnNote([notes |-> notes, count |-> spawnedNoteCount,
                                 judged |-> judged], isPaused, VideoClock,
                                noteDuration,
                                IsSimul(VideoClock,
                                        Frac(Energy(b.file)[b.k + 1] * r.avgEnergy.d,
                                             r.avgEnergy.n)),
                                tg)
            IN  /\ notes' = sp.notes /\ spawnedNoteCount' = sp.count
                /\ judged' = sp.judged
     ELSE UNCHANGED <<notes, spawnedNoteCount, judged>>
  /\ last' = Call("analysis")
  /\ UNCHANGED <<gameState, isPlaying, isPaused, sessionVars, currentChart,
                 analysisData, isAnalyzing, currentFile, startTime,
                 pauseStartTime, noteDuration, minBeatInterval, scoreTarget,
                 speedInput, intervalInput, rank, perfNow, videoTime,
                 videoPlaying, used, jlog>>

\* lines 340-365: the rendering is over; the result is installed
BuildFinish(i) ==
  LET b == builds[i]
      ad == MakeAnalysis(b.noteChart, b.file)
  IN
  /\ b.phase = "render"
  /\ b.k = NumSamples(b.file)
  /\ analysisData' = ad
  /\ builds' = RemoveAt(builds, i)
  /\ isAnalyzing' = FALSE
  /\ Continue(b, ad, FALSE)
  /\ IF b.waiter THEN TRUE ELSE UNCHANGED <<avgEnergy, lastAnalysisTime>>
  /\ UNCHANGED <<currentFile, pauseStartTime, speedInput, intervalInput, rank,
                 perfNow, used, jlog>>

(***************************************************************************)
(* The engine.                                                             *)
(***************************************************************************)
Next ==
  \/ StartBtn
  \/ BackToMenu
  \/ QuitBtn
  \/ \E f \in Files : Upload(f)
  \/ \E v \in Speeds : SpeedChange(v)
  \/ \E v \in Intervals : IntervalChange(v)
  \/ SongStart
  \/ RestartBtn
  \/ PauseBtn
  \/ PauseRetry
  \/ PauseMenu
  \/ \E idx \in TapTargets : HandleMouseDown(idx)
  \/ Update
  \/ Tick(CoarseTickMs)
  \/ \E i \in 1 .. Len(builds) : BuildDecoded(i)
  \/ \E i \in 1 .. Len(builds) : BuildFailed(i)
  \/ \E i \in 1 .. Len(builds) : BuildSample(i)
  \/ \E i \in 1 .. Len(builds) : BuildFinish(i)

Spec == Init /\ [][Next]_vars

(***************************************************************************)
(* One play session followed closely: the engine right after startGame     *)
(* has started a session on a finished analysis of file f, with ticks of   *)
(* TickMs.                                                                 *)
(***************************************************************************)
\* the chart analyzeAudio builds for file f when nothing interferes
RECURSIVE BuildFrom(_, _, _, _, _, _, _)
BuildFrom(f, k, avg, lastT, chart, minInterval, nd) ==
  IF k = NumSamples(f) THEN chart
  ELSE LET r == HandleBeatDetection(avg, lastT, TRUE, k * StepMs,
                                    Energy(f)[k + 1], DurationMs(f), minInterval,
                                    nd)
       IN  BuildFrom(f, k + 1, r.avgEnergy, r.lastAnalysisTime,
                     IF r.beat.valid THEN Append(chart, r.beat) ELSE chart,
                     minInterval, nd)

BuildChart(f, minInterval, nd) ==
  BuildFrom(f, 0, Zero, -minInterval, <<>>, minInterval, nd)

InitPlay ==
  \E f \in {1, 2}, sp \in Speeds, iv \in Intervals :
    LET ad == MakeAnalysis(BuildChart(f, iv, sp), f) IN
    /\ gameState = "playing" /\ isPlaying = TRUE /\ isPaused = FALSE
    /\ score = 0 /\ combo = 0 /\ maxCombo = 0 /\ stats = NoStats
    /\ currentHP = maxHP
    /\ notes = <<>> /\ spawnedNoteCount = 0 /\ currentChart = ad.noteChart
    /\ analysisData = ad /\ isAnalyzing = FALSE
    /\ avgEnergy = Zero /\ lastAnalysisTime = 0
    /\ currentFile = f /\ startTime = TickMs /\ pauseStartTime = 0
    /\ noteDuration = sp /\ minBeatInterval = iv
    /\ scoreTarget = ad.targetScore
    /\ speedInput = sp /\ intervalInput = iv
    /\ rank = "" /\ perfNow = TickMs /\ videoTime = 0 /\ videoPlaying = TRUE
    /\ used = [NoneUsed EXCEPT !.presses = 3, !.idle = 1] /\ builds = <<>>
    /\ judged = <<>> /\ jlog = <<>>
    /\ last = [Call("startGame") EXCEPT !.entered = TRUE]

NextPlay ==
  \/ \E idx \in TapTargets : HandleMouseDown(idx)
  \/ Update
  \/ Tick(TickMs)
  \/ PauseBtn
  \/ PauseMenu

SpecPlay == InitPlay /\ [][NextPlay]_vars

(***************************************************************************)
(* applyJudgment alone: judgments of any tier applied in any order to a    *)
(* fresh session.                                                          *)
(***************************************************************************)
Judgments == {"PERFECT", "GREAT", "GOOD", "MISS"}

ApplyStep(j) ==
  LET s == ApplyJudgment(Session, j) IN
  /\ Len(jlog) < MaxJudgments
  /\ jlog' = Append(jlog, j)
  /\ score' = s.score /\ combo' = s.combo /\ maxCombo' = s.maxCombo
  /\ stats' = s.stats /\ currentHP' = s.currentHP
  /\ UNCHANGED <<gameState, isPlaying, isPaused, notes, spawnedNoteCount,
                 currentChart, analysisData, isAnalyzing, avgEnergy,
                 lastAnalysisTime, currentFile, startTime, pauseStartTime,
                 noteDuration, minBeatInterval, scoreTarget, envVars, judged,
                 last>>

NextJudgment == \E j \in Judgments : ApplyStep(j)

SpecJudgment == Init /\ [][NextJudgment]_vars

(***************************************************************************)
(* applyJudgment alone, for runs long enough to take the HP from maxHP to  *)
(* 0: the judgments are applied as above but not logged.                   *)
(***************************************************************************)
ApplyLong(j) ==
  LET s == ApplyJudgment(Session, j) IN
  /\ stats.perfect + stats.great + stats.good + stats.miss < MaxLongJudgments
  /\ score' = s.score /\ combo' = s.combo /\ maxCombo' = s.maxCombo
  /\ stats' = s.stats /\ currentHP' = s.currentHP
  /\ UNCHANGED <<gameState, isPlaying, isPaused, notes, spawnedNoteCount,
                 currentChart, analysisData, isAnalyzing, avgEnergy,
                 lastAnalysisTime, currentFile, startTime, pauseStartTime,
                 noteDuration, minBeatInterval, scoreTarget, envVars,
                 ghostVars>>

NextLong == \E j \in Judgments : ApplyLong(j)

SpecLong == Init /\ [][NextLong]_vars

(***************************************************************************)
(* The chart build alone: the song-select screen right after a file was    *)
(* chosen (video-upload.onchange has called analyzeAudio), then the steps  *)
(* of the build, changes of the settings and the start of the song.        *)
(***************************************************************************)
InitBuild ==
  \E f \in BuildFiles, sp \in Speeds, iv \in BuildIntervals :
    /\ gameState = "song-select" /\ isPlaying = FALSE /\ isPaused = FALSE
    /\ score = 0 /\ combo = 0 /\ maxCombo = 0 /\ stats = NoStats
    /\ currentHP = maxHP
    /\ notes = <<>> /\ spawnedNoteCount = 0 /\ currentChart = <<>>
    /\ analysisData = NoAnalysis /\ isAnalyzing = TRUE
    /\ avgEnergy = Zero /\ lastAnalysisTime = 0
    /\ currentFile = f /\ startTime = 0 /\ pauseStartTime = 0
    /\ noteDuration = 0 /\ minBeatInterval = 250 /\ scoreTarget = 0
    /\ speedInput = sp /\ intervalInput = iv
    /\ rank = "" /\ perfNow = 0 /\ videoTime = 0 /\ videoPlaying = FALSE
    /\ used = [NoneUsed EXCEPT !.presses = 2]
    /\ builds = <<NewBuild(f, FALSE)>>
    /\ judged = <<>> /\ jlog = <<>>
    /\ last = [Call("onchange") EXCEPT !.analyze = "started"]

NextBuild ==
  \/ \E i \in 1 .. Len(builds) : BuildDecoded(i)
  \/ \E i \in 1 .. Len(builds) : BuildFailed(i)
  \/ \E i \in 1 .. Len(builds) : BuildSample(i)
  \/ \E i \in 1 .. Len(builds) : BuildFinish(i)
  \/ \E v \in Speeds : SpeedChange(v)
  \/ \E v \in BuildIntervals : IntervalChange(v)
  \/ SongStart

SpecBuild == InitBuild /\ [][NextBuild]_vars


(***************************************************************************)
(* Properties.                                                             *)
(***************************************************************************)
RECURSIVE SumSeq(_)
SumSeq(q) == IF q = <<>> THEN 0 ELSE Head(q) + SumSeq(Tail(q))

JudgmentsApplied == stats.perfect + stats.great + stats.good + stats.miss

\* C1: a note is judged at most once.  In every state of a session no note
\* has had more than one judgment (a hit tier from checkHit or a timeout
\* MISS from update), a note is processed exactly when it has had its one
\* judgment, and the judgments applied to the session are exactly those of
\* the notes judged.
C1_JudgedAtMostOnce ==
  /\ \A id \in 1 .. Len(judged) : judged[id] <= 1
  /\ \A i \in 1 .. Len(notes) :
       notes[i].processed <=> (judged[notes[i].id] = 1)
  /\ JudgmentsApplied = SumSeq(judged)

\* a session in which one note was hit by a tap and another timed out in a
\* later frame
C1_Witness ==
  /\ last.op = "update"
  /\ stats.miss >= 1
  /\ stats.perfect + stats.great + stats.good >= 1
  /\ \A i \in 1 .. Len(notes) : notes[i].processed

\* C2: whenever startGame switches the engine to 'playing', no chart build
\* is in flight.
C2_StartAwaitsBuild ==
  (last.op = "startGame" /\ last.entered) => ~isAnalyzing

\* C3: a startGame call that awaited a chart build that failed does not
\* switch the engine to 'playing'.
C3_FailedBuildStartsNothing ==
  (last.op = "startGame" /\ last.awaited /\ last.failed) => gameState # "playing"

\* C4: at most one chart build is in flight at any time, and a call of
\* analyzeAudio (from a change of the file or of a setting) while isAnalyzing
\* starts no build and leaves isAnalyzing, analysisData, avgEnergy and
\* lastAnalysisTime unchanged.
C4_OneBuildInFlight ==
  /\ [](Len(builds) <= 1)
  /\ [][(isAnalyzing /\ last'.op = "onchange")
          => UNCHANGED <<builds, isAnalyzing, analysisData, avgEnergy,
                         lastAnalysisTime>>]_vars

\* a setting or the file was changed while a build was in flight
C4_Witness ==
  /\ last.op = "onchange" /\ last.analyze = "noop"
  /\ isAnalyzing /\ Len(builds) = 1

\* C5: the tier a tap gets is the tier it gets on the clock that stamps
\* spawnTime and drives the timeout sweep (video.currentTime).
C5_SameClock ==
  (last.op = "checkHit" /\ last.found) => last.tier = last.vtier

\* C6: paused time is excluded from the game clock.  A pause records the
\* wall clock and leaves startTime alone, nothing moves either while the
\* game stays paused, and the resume leaves the game clock
\* (performance.now() - startTime) at the value it had at the pause.
C6_PauseShiftsClock ==
  [][/\ (isPlaying /\ ~isPaused /\ isPaused')
          => (pauseStartTime' = perfNow /\ startTime' = startTime)
     /\ (isPaused /\ isPaused')
          => (pauseStartTime' = pauseStartTime /\ startTime' = startTime)
     /\ (isPaused /\ ~isPaused' /\ last'.op = "togglePause")
          => (perfNow' - startTime' = pauseStartTime - startTime)]_vars

\* the game was resumed after a pause during which the wall clock ran
C6_Witness ==
  /\ last.op = "togglePause" /\ isPlaying /\ ~isPaused
  /\ startTime > TickMs

\* the tier the thresholds 60/120/180 give a distance
ThresholdTier(diff) ==
  IF diff < 60 THEN "PERFECT" ELSE IF diff < 120 THEN "GREAT" ELSE "GOOD"

StatOf(st, tier) ==
  IF tier = "PERFECT" THEN st.perfect
  ELSE IF tier = "GREAT" THEN st.great
  ELSE IF tier = "GOOD" THEN st.good
  ELSE st.miss

\* the distance of a tap at the game clock from the arrival of note i
Diff(i) == Abs(GameClock - ArrTime(notes[i]))

\* the tap of this step marks note i processed
Hits(i) ==
  /\ last'.op = "checkHit"
  /\ Len(notes') = Len(notes)
  /\ ~notes[i].processed /\ notes'[i].processed

\* C7: a tap matched to a note at distance diff < 60 counts one PERFECT, at
\* 60 <= diff < 120 one GREAT, at 120 <= diff < 180 one GOOD; no note at
\* diff >= 180 is matched, and checkHit never counts a MISS.
C7_TierThresholds ==
  [][\A i \in 1 .. Len(notes) :
       Hits(i) =>
         /\ Diff(i) < 180
         /\ last'.tier = ThresholdTier(Diff(i))
         /\ StatOf(stats', ThresholdTier(Diff(i)))
              = StatOf(stats, ThresholdTier(Diff(i))) + 1
         /\ JudgmentsApplied' = JudgmentsApplied + 1
         /\ stats'.miss = stats.miss]_vars

\* a tap at distance exactly 60 was judged GREAT
C7_Witness ==
  last.op = "checkHit" /\ last.found /\ last.diff = 60 /\ last.tier = "GREAT"

\* note k is an unprocessed note on target idx within the hit window
Qualifies(k, idx) ==
  notes[k].targetIdx = idx /\ ~notes[k].processed /\ Diff(k) < 180

\* C8: a tap on target idx selects, among the unprocessed notes on idx with
\* diff < 180, one of minimum diff, and of those that tie on the minimum the
\* one that arrives first; it selects one whenever there is one.
C8_ClosestNoteEarliestOnTie ==
  [][\A idx \in Targets :
       (isPlaying /\ HandleMouseDown(idx)) =>
         /\ (\E k \in 1 .. Len(notes) : Qualifies(k, idx))
              => \E i \in 1 .. Len(notes) : Hits(i)
         /\ \A i \in 1 .. Len(notes) :
              Hits(i) =>
                /\ Qualifies(i, idx)
                /\ \A k \in 1 .. Len(notes) :
                     Qualifies(k, idx) =>
                       \/ Diff(i) < Diff(k)
                       \/ Diff(i) = Diff(k) /\ ArrTime(notes[i]) <= ArrTime(notes[k])
                /\ \A k \in 1 .. Len(notes) :
                     k # i => notes'[k] = notes[k]]_vars

\* a tap selected a note while a later-arriving unprocessed note on the same
\* target was at the same distance
C8_Witness ==
  /\ last.op = "checkHit" /\ last.found
  /\ \E i, k \in 1 .. Len(notes) :
       /\ notes[i].id = last.id
       /\ notes[k].targetIdx = notes[i].targetIdx
       /\ ~notes[k].processed
       /\ Diff(k) = last.diff
       /\ ArrTime(notes[i]) < ArrTime(notes[k])

\* C9: a press that matches no qualifying note (none unprocessed on that
\* target within the hit window, or no target under the pointer) changes
\* neither score, combo, maxCombo, stats, HP nor any note.
C9_NoMatchNoChange ==
  [][\A idx \in TapTargets :
       (/\ HandleMouseDown(idx)
        /\ ~\E k \in 1 .. Len(notes) : Qualifies(k, idx))
         => UNCHANGED <<score, combo, maxCombo, stats, currentHP, notes>>]_vars

\* a tap found no note while a combo was running, and the combo stands
C9_Witness ==
  /\ last.op = "checkHit" /\ ~last.found
  /\ isPlaying /\ combo > 0
  /\ \E i \in 1 .. Len(notes) : ~notes[i].processed

BaseScore(j) == IF j = "PERFECT" THEN 1000 ELSE IF j = "GREAT" THEN 750 ELSE 500

\* C10: applyJudgment.  MISS sets combo to 0, counts one miss and leaves the
\* score; PERFECT/GREAT/GOOD increment combo, raise maxCombo to it, add
\* 1000/750/500 plus 10 times the new combo to score and count one of the
\* tier.  From a fresh session PERFECT, PERFECT, MISS, GREAT give the scores
\* 1010, 2030, 2030, 2790 and the combos 1, 2, 0, 1.
C10_ApplyJudgment ==
  /\ [](/\ jlog = <<"PERFECT">> => (score = 1010 /\ combo = 1)
        /\ jlog = <<"PERFECT", "PERFECT">>
             => (score = 2030 /\ combo = 2 /\ maxCombo = 2)
        /\ jlog = <<"PERFECT", "PERFECT", "MISS">> => (score = 2030 /\ combo = 0)
        /\ jlog = <<"PERFECT", "PERFECT", "MISS", "GREAT">>
             => (score = 2790 /\ combo = 1))
  /\ [][\A j \in Judgments :
          jlog' = Append(jlog, j) =>
            /\ StatOf(stats', j) = StatOf(stats, j) + 1
            /\ JudgmentsApplied' = JudgmentsApplied + 1
            /\ IF j = "MISS"
               THEN combo' = 0 /\ score' = score /\ maxCombo' = maxCombo
               ELSE /\ combo' = combo + 1
                    /\ maxCombo' = (IF combo' > maxCombo THEN combo' ELSE maxCombo)
                    /\ score' = score + BaseScore(j) + 10 * combo']_vars

\* the four judgments of the example have been applied
C10_Witness ==
  jlog = <<"PERFECT", "PERFECT", "MISS", "GREAT">> /\ score = 2790

\* the HP a judgment leaves, from the HP before it
HPAfter(hp, j) ==
  IF j = "PERFECT" THEN (IF hp + 1 > 100 THEN 100 ELSE hp + 1)
  ELSE IF j = "GREAT" THEN hp
  ELSE IF j = "GOOD" THEN (IF hp - 2 < 0 THEN 0 ELSE hp - 2)
  ELSE (IF hp - 10 < 0 THEN 0 ELSE hp - 10)

\* C11: in every state 0 <= currentHP <= maxHP, however long the sequence
\* of judgments: PERFECT adds 1 capped at maxHP, GREAT leaves the HP, GOOD
\* subtracts 2 and MISS subtracts 10, both floored at 0.
C11_HPBounds ==
  /\ [](0 <= currentHP /\ currentHP <= maxHP)
  /\ [][\A j \in Judgments :
          StatOf(stats', j) = StatOf(stats, j) + 1
            => currentHP' = HPAfter(currentHP, j)]_vars

\* the HP has been taken to the floor by misses and a further miss applied
C11_Witness ==
  currentHP = 0 /\ stats.miss >= 11

\* C12: chart building is deterministic.  The chart a build has when its
\* last sample is done is the chart the samples of its file and the
\* settings it read give on their own, whatever the engine did meanwhile.
C12_ChartDeterministic ==
  \A i \in 1 .. Len(builds) :
    (builds[i].phase = "render" /\ builds[i].k = NumSamples(builds[i].file))
      => builds[i].noteChart
           = BuildChart(builds[i].file, builds[i].minInterval,
                        builds[i].noteDuration)

\* C13: in the chart of a build every entry is later than the entry before
\* it by more than the minimum interval the build read.
C13_ChartSpacing ==
  \A i \in 1 .. Len(builds) :
    \A j \in 1 .. Len(builds[i].noteChart) - 1 :
      builds[i].noteChart[j + 1].time
        > builds[i].noteChart[j].time + builds[i].minInterval

\* C14: no entry of the chart of a build is later than the length of the
\* track less (noteDuration + 500), and the build of a track shorter than
\* noteDuration + 500 ends with an empty chart.
C14_EndCutoff ==
  \A i \in 1 .. Len(builds) :
    LET b == builds[i] IN
    /\ \A j \in 1 .. Len(b.noteChart) :
         ~(b.noteChart[j].time > DurationMs(b.file) - (b.noteDuration + 500))
    /\ (b.phase = "render" /\ b.k = NumSamples(b.file)
        /\ DurationMs(b.file) < b.noteDuration + 500)
         => b.noteChart = <<>>

\* the build of a track shorter than noteDuration + 500 whose samples rise
\* above the floor has taken its last sample
C14_Witness ==
  \E i \in 1 .. Len(builds) :
    LET b == builds[i] IN
    /\ b.phase = "render" /\ b.k = NumSamples(b.file)
    /\ DurationMs(b.file) < b.noteDuration + 500
    /\ \E k \in 1 .. b.k : Energy(b.file)[k] > 20

\* the notes of a chart: two for a simultaneous entry, one for any other
NotesOf(chart) ==
  Len(chart) + Cardinality({j \in 1 .. Len(chart) : chart[j].isSimul})

\* C15: the result of every completed build has totalNotes equal to the sum
\* over its chart of 2 for a simultaneous entry and 1 for any other, and
\* perfectScore = totalNotes * 1000 + 10 * totalNotes * (totalNotes + 1) / 2:
\* 3060 for 3 notes, 0 for an empty chart.
C15_PerfectScoreFormula ==
  analysisData.valid =>
    /\ analysisData.totalNotes = NotesOf(analysisData.noteChart)
    /\ 2 * analysisData.perfectScore
         = 2000 * analysisData.totalNotes
           + 10 * analysisData.totalNotes * (analysisData.totalNotes + 1)
    /\ analysisData.totalNotes = 3 => analysisData.perfectScore = 3060
    /\ analysisData.noteChart = <<>> => analysisData.perfectScore = 0

\* a build has completed with a single entry and a simultaneous one
C15_Witness ==
  /\ analysisData.valid /\ ~isAnalyzing
  /\ Len(analysisData.noteChart) = 2
  /\ analysisData.totalNotes = 3 /\ analysisData.perfectScore = 3060

\* C16: perfectScore is the maximum achievable score.  In a session played
\* against an analysed chart the score never exceeds the perfectScore of the
\* analysis and the notes spawned never exceed its totalNotes.
C16_PerfectScoreIsMax ==
  analysisData.valid =>
    /\ score <= analysisData.perfectScore
    /\ spawnedNoteCount <= analysisData.totalNotes

\* every note of a chart of three notes was hit PERFECT: the score is the
\* perfectScore
C16_Witness ==
  /\ analysisData.valid /\ analysisData.totalNotes = 3
  /\ spawnedNoteCount = 3 /\ stats.perfect = 3
  /\ score = analysisData.perfectScore

\* no sample of the track of file f is above the floor of 20
Quiet(f) ==
  Decodable(f) /\ \A k \in 1 .. NumSamples(f) : Energy(f)[k] <= 20

\* C17: a track whose energy never exceeds the floor gives an empty chart
\* with totalNotes = 0 and perfectScore = 0, and a session played on it
\* spawns no note and has score 0 and all counters 0 to its end.
C17_QuietTrack ==
  /\ (analysisData.valid /\ Quiet(analysisData.file))
       => /\ analysisData.noteChart = <<>>
          /\ analysisData.totalNotes = 0 /\ analysisData.perfectScore = 0
  /\ (gameState \in {"playing", "result"} /\ Quiet(currentFile))
       => /\ spawnedNoteCount = 0 /\ notes = <<>>
          /\ score = 0 /\ stats = NoStats

\* the build half of C17 alone: the chart of a quiet track is empty
QuietChartEmpty ==
  (analysisData.valid /\ Quiet(analysisData.file))
    => /\ analysisData.noteChart = <<>>
       /\ analysisData.totalNotes = 0 /\ analysisData.perfectScore = 0

\* C18: every spawned note is resolved before the track ends.  When
\* endGame has run at the end of the video (the result screen is shown),
\* every entry of the chart has been popped, no unprocessed note remains
\* and the judgments applied are as many as the notes of the chart, all of
\* them spawned.
C18_AllNotesResolved ==
  gameState = "result" =>
    /\ currentChart = <<>>
    /\ \A i \in 1 .. Len(notes) : notes[i].processed
    /\ JudgmentsApplied = spawnedNoteCount

\* the rank of ratio = sc / ref by the thresholds 0.90, 0.80, 0.70, 0.60;
\* with ref = 0 the ratio is Infinity for sc > 0 and NaN for sc = 0, and a
\* NaN is below every threshold
RatioRank(sc, ref) ==
  IF ref = 0 THEN (IF sc > 0 THEN "SS" ELSE "C")
  ELSE IF 10 * sc >= 9 * ref THEN "SS"
  ELSE IF 10 * sc >= 8 * ref THEN "S"
  ELSE IF 10 * sc >= 7 * ref THEN "A"
  ELSE IF 10 * sc >= 6 * ref THEN "B"
  ELSE "C"

\* C19: whenever endGame runs it assigns the rank of score / referenceScore,
\* the referenceScore being the perfectScore of the analysis when there is
\* one and 500000 otherwise: SS from 0.90, S from 0.80, A from 0.70, B from
\* 0.60, else C.
C19_Rank ==
  [][(isPlaying /\ ~isPlaying')
       => rank' = RatioRank(score',
                            IF analysisData'.valid
                            THEN analysisData'.perfectScore ELSE 500000)]_vars

\* a session has ended with a rank above C
C19_Witness ==
  /\ gameState = "result" /\ analysisData.valid
  /\ rank \in {"S", "A", "B"}
  /\ 10 * score < 9 * analysisData.perfectScore

\* the score target estimated from a track of 180 s at interval iv (ms):
\* nine tenths of the perfect score of floor(180 / (iv / 1000) * 0.6) notes
FallbackTarget(iv) ==
  LET n == (180000 * 6) \div (iv * 10)
  IN  ((n * 1000 + 5 * n * (n + 1)) * 9) \div 10

\* C20: when startGame has no analysis and the duration of the video is
\* NaN, Infinity or zero, it estimates the score target from the fallback
\* length of 180 s, and the session starts.
C20_InvalidDurationFallback ==
  (/\ last.op = "startGame" /\ last.entered
   /\ ~analysisData.valid
   /\ VideoDurationMs(currentFile) \in {NaNDuration, InfiniteDuration, 0})
    => /\ gameState = "playing"
       /\ scoreTarget = FallbackTarget(minBeatInterval)

\* the part of C20 the code provides: NaN and Infinity are replaced
NonFiniteDurationFallback ==
  (/\ last.op = "startGame" /\ last.entered
   /\ ~analysisData.valid
   /\ VideoDurationMs(currentFile) \in {NaNDuration, InfiniteDuration})
    => /\ gameState = "playing"
       /\ scoreTarget = FallbackTarget(minBeatInterval)

\* the notes of notes' that the step has added
Added == {i \in 1 .. Len(notes') : notes'[i].id > Len(judged)}

\* C21: a frame while playing and not paused at playback time now leaves no
\* entry with time <= now in currentChart; the entries it pops are a prefix
\* of the chart, all of them due, and it adds two notes for every
\* simultaneous entry popped and one for any other, spawnedNoteCount
\* growing by the same number.
C21_SpawnDue ==
  [][(Update /\ isPlaying /\ ~isPaused) =>
       /\ \A j \in 1 .. Len(currentChart') : currentChart'[j].time > videoTime
       /\ \E n \in 0 .. Len(currentChart) :
            /\ currentChart' = SubSeq(currentChart, n + 1, Len(currentChart))
            /\ \A j \in 1 .. n : currentChart[j].time <= videoTime
            /\ Cardinality(Added) = NotesOf(SubSeq(currentChart, 1, n))
            /\ spawnedNoteCount' - spawnedNoteCount
                 = NotesOf(SubSeq(currentChart, 1, n))]_vars

\* one frame has popped both entries of a chart, a single and a
\* simultaneous one
C21_Witness ==
  /\ last.op = "update" /\ isPlaying
  /\ currentChart = <<>> /\ spawnedNoteCount = 3 /\ Len(notes) = 3
  /\ \A i \in 1 .. Len(notes) : notes[i].spawnTime = notes[1].spawnTime

\* the notes of the list that have the spawnTime of note i
SameSpawn(i) == {k \in 1 .. Len(notes) : notes[k].spawnTime = notes[i].spawnTime}

\* C22: in every pending-note list the notes that share a spawnTime are one
\* note not flagged isSimultaneous, or exactly two notes both flagged, on
\* different targets.
C22_SimulPairs ==
  \A i \in 1 .. Len(notes) :
    IF notes[i].isSimultaneous
    THEN /\ Cardinality(SameSpawn(i)) = 2
         /\ \A k \in SameSpawn(i) :
              /\ notes[k].isSimultaneous
              /\ k # i => notes[k].targetIdx # notes[i].targetIdx
    ELSE SameSpawn(i) = {i}

\* the part of C22 that concerns one call of spawnNote: the flagged notes
\* come in adjacent pairs with one spawnTime and two different targets
PairsAdjacent ==
  \A i \in 1 .. Len(notes) :
    notes[i].isSimultaneous =>
      \E k \in {i - 1, i + 1} \cap (1 .. Len(notes)) :
        /\ notes[k].isSimultaneous
        /\ notes[k].spawnTime = notes[i].spawnTime
        /\ notes[k].targetIdx # notes[i].targetIdx

\* the unprocessed notes that are late at playback time now
Late(now) ==
  {i \in 1 .. Len(notes) :
     ~notes[i].processed
     /\ now > notes[i].spawnTime + notes[i].duration + 180}

\* C23: a frame while playing and not paused at playback time now marks
\* every unprocessed note with now > spawnTime + duration + 180 processed
\* and gives it exactly one MISS (combo 0, stats.miss + 1, HP - 10 floored
\* at 0), and marks no other unprocessed note.
C23_TimeoutSweep ==
  [][(Update /\ isPlaying /\ ~isPaused) =>
       /\ \A i \in 1 .. Len(notes) :
            ~notes[i].processed =>
              /\ judged'[notes[i].id]
                   = judged[notes[i].id] + (IF i \in Late(videoTime) THEN 1 ELSE 0)
              /\ \A k \in 1 .. Len(notes') :
                   notes'[k].id = notes[i].id
                     => (notes'[k].processed <=> i \in Late(videoTime))
       /\ stats' = [stats EXCEPT !.miss = @ + Cardinality(Late(videoTime))]
       /\ score' = score
       /\ Late(videoTime) # {} =>
            /\ combo' = 0
            /\ currentHP' = (IF currentHP < 10 * Cardinality(Late(videoTime))
                             THEN 0
                             ELSE currentHP - 10 * Cardinality(Late(videoTime)))
       /\ Late(videoTime) = {} => (combo' = combo /\ currentHP' = currentHP)]_vars

\* a frame has timed a note out and left alone a note that is exactly at
\* the edge of the window
C23_Witness ==
  /\ last.op = "update" /\ isPlaying /\ stats.miss >= 1
  /\ \E i \in 1 .. Len(notes) :
       ~notes[i].processed /\ videoTime = ArrTime(notes[i]) + 180

\* C24: after the first sample of a chart build avgEnergy is the energy of
\* that sample exactly, and the first sample yields no chart entry; a build
\* over a single sample ends with an empty chart.
C24_Seed ==
  /\ [](\A i \in 1 .. Len(builds) :
          (builds[i].phase = "render" /\ builds[i].k <= 1)
            => builds[i].noteChart = <<>>)
  /\ [][\A i \in 1 .. Len(builds) :
          (BuildSample(i) /\ builds[i].k = 0)
            => (avgEnergy'.n = Energy(builds[i].file)[1] * avgEnergy'.d)]_vars

\* the build of the loud track of a single sample has taken its sample
C24_Witness ==
  \E i \in 1 .. Len(builds) :
    /\ builds[i].phase = "render"
    /\ NumSamples(builds[i].file) = 1 /\ builds[i].k = 1
    /\ avgEnergy.n > 20 /\ avgEnergy.d = 1

\* C25: every call of handleBeatDetection of a chart build but the first
\* sets avgEnergy to avgEnergy * 0.95 + energy * 0.05; the seed assignment
\* is made on the first call only, also when samples have energy 0.
C25_AverageUpdate ==
  [][\A i \in 1 .. Len(builds) :
       (BuildSample(i) /\ builds[i].k >= 1)
         => (20 * avgEnergy.d * avgEnergy'.n
               = (19 * avgEnergy.n
                    + Energy(builds[i].file)[builds[i].k + 1] * avgEnergy.d)
                 * avgEnergy'.d)]_vars

\* a step in which startGame ran its body (lines 228-282)
StartGameRan == last'.op = "startGame" /\ last'.entered /\ perfNow' = perfNow

\* C26: the analysis is immutable input to play.  No step that spawns notes
\* and no frame of update changes analysisData (noteChart, totalNotes,
\* perfectScore), and every startGame that runs on an analysis begins with
\* currentChart equal to the whole analysed chart, so a restart replays the
\* same entries.
C26_AnalysisImmutable ==
  [][/\ (Update \/ spawnedNoteCount' > spawnedNoteCount)
          => analysisData' = analysisData
     /\ (StartGameRan /\ analysisData'.valid)
          => currentChart' = analysisData'.noteChart]_vars

\* after a session has ended, startGame has run again on an analysis whose
\* chart has entries, and the session begins with the whole chart
C26_Witness ==
  /\ last.op = "startGame" /\ last.entered
  /\ rank # "" /\ used.presses >= 4
  /\ analysisData.valid /\ analysisData.noteChart # <<>>
  /\ currentChart = analysisData.noteChart
  /\ spawnedNoteCount = 0

\* the ids of the notes that are processed
ProcessedIds(ns) == {ns[i].id : i \in {j \in 1 .. Len(ns) : ns[j].processed}}

\* C27: while the game is paused no judgment is produced.  A step that
\* starts and ends with isPaused true (a frame, a tap, the passing of time)
\* changes no note's processed flag, nor score, combo, stats or HP, and
\* consumes no chart entry.
C27_NoJudgmentWhilePaused ==
  [][(isPaused /\ isPaused')
       => /\ UNCHANGED <<score, combo, maxCombo, stats, currentHP, currentChart>>
          /\ ProcessedIds(notes') = ProcessedIds(notes)]_vars

\* the part of C27 update provides: a frame of a paused game changes nothing
\* of the session
PausedFrameIdle ==
  [][(Update /\ isPaused)
       => UNCHANGED <<sessionVars, notes, currentChart, spawnedNoteCount>>]_vars

\* C28: whenever analysisData is non-null and no build is in flight, it was
\* computed from the currently selected file: a file selected while the build
\* for the previous file was outstanding never leaves the previous file's
\* chart installed.
C28_AnalysisOfCurrentFile ==
  (analysisData.valid /\ ~isAnalyzing) => analysisData.file = currentFile

\* the part of C28 the code provides: a build that starts with no other in
\* flight is a build of currentFile
BuildOfSelectedFile ==
  [][\A i \in 1 .. Len(builds') :
       (Len(builds) = 0 /\ Len(builds') = 1) => builds'[i].file = currentFile']_vars

====
